---- MODULE Spec2Model ----
(***************************************************************************)
(* A model of examples/run_squad_zh.py: the window builder                 *)
(* (convert_examples_to_features), the max-context resolver                *)
(* (_check_is_max_context), the span aligner (_improve_answer_span), the   *)
(* prediction aggregator (write_predictions) and the original-text         *)
(* projection (get_final_text).                                            *)
(*                                                                         *)
(* Python lists are TLA+ sequences; a Python index i is the sequence index *)
(* i+1.  Every position kept in the state (start_position, span.start,    *)
(* token_to_orig_map keys, ...) is the 0-based value the program holds.    *)
(* A text is represented by the sequence of subword tokens the tokenizer   *)
(* gives for it; " ".join(x) == " ".join(y) is then equality of the token  *)
(* sequences, since no token is empty or holds a space.                    *)
(***************************************************************************)
EXTENDS Integers, Sequences, FiniteSets, TLC

VARIABLES
    args,          \* the command line: max_seq_length, doc_stride, max_query_length, is_training
    example,       \* the SquadExample being converted / aggregated
    pc,            \* position in the running function
    query_tokens, all_doc_tokens, tok_to_orig_index, orig_to_tok_index,
    tok_start_position, tok_end_position, max_tokens_for_doc,
    doc_spans, start_offset,      \* the sliding-window loop
    features, unique_id,          \* the InputFeatures built so far
    spans_in, position_in, owners,            \* _check_is_max_context on free inputs
    wp,                           \* write_predictions: its inputs and per-example results
    text_in, text_out,            \* get_final_text: its arguments and its return value
    reader_in, reader_out,        \* read_squad_examples: the file and mode, and the outcome
    span_in, span_out,            \* _improve_answer_span: its arguments and its return value
    files, run, train_features    \* main's feature cache: the files on disk, the run, its features

vars == <<args, example, pc, query_tokens, all_doc_tokens, tok_to_orig_index,
          orig_to_tok_index, tok_start_position, tok_end_position,
          max_tokens_for_doc, doc_spans, start_offset, features, unique_id,
          spans_in, position_in, owners, wp,
          text_in, text_out, reader_in, reader_out,
          span_in, span_out, files, run, train_features>>

convVars == <<args, example, query_tokens, all_doc_tokens, tok_to_orig_index,
              orig_to_tok_index, tok_start_position, tok_end_position,
              max_tokens_for_doc, doc_spans, start_offset, features, unique_id>>

ctxVars == <<spans_in, position_in, owners>>

spanVars == <<span_in, span_out>>

cacheVars == <<files, run, train_features>>

fnVars == <<text_in, text_out, reader_in, reader_out, spanVars, cacheVars>>

----------------------------------------------------------------------------
(* Bounds of the explored inputs.                                          *)

MaxWords == 3        \* document words per example
MaxSeqLen == 7       \* largest --max_seq_length explored (smallest is 4)
MaxStride == 2       \* largest --doc_stride explored (smallest is -1)
MaxQuery == 2        \* largest question length and --max_query_length explored

\* A terminating run of the window loop appends at most one span per document
\* subword (start_offset grows on every iteration that continues), so a run
\* that is about to append more than this many spans never leaves the loop.
MaxSpans == 2 * MaxWords + 2

None == "None"

----------------------------------------------------------------------------
(* Helpers for Python lists and builtins.                                  *)

Min(a, b) == IF a < b THEN a ELSE b

Max(a, b) == IF a > b THEN a ELSE b

\* lst[i], 0-based
At(lst, i) == lst[i + 1]

\* lst[lo:hi+1] for 0 <= lo, the slice of the 0-based inclusive range lo..hi
Slice(lst, lo, hi) == SubSeq(lst, lo + 1, Min(hi + 1, Len(lst)))

\* [v] * n
Repeat(v, n) == [i \in 1..Max(n, 0) |-> v]

RECURSIVE Flatten(_)
Flatten(ss) == IF ss = <<>> THEN <<>> ELSE Head(ss) \o Flatten(Tail(ss))

SeqsUpTo(S, n) == UNION {[1..k -> S] : k \in 0..n}

----------------------------------------------------------------------------
(* The tokenizer (pytorch_pretrained_bert.tokenization.BertTokenizer).      *)
(* A word of the document is given by its subword tokens ("##b" is the     *)
(* continuation piece b), and so are the question and the answer text.     *)

Tokens == {"a", "b", "##b"}

\* the words a document is made of: a, b and ab, the last of two subwords
Words == {<<"a">>, <<"b">>, <<"a", "##b">>}

tokenize(text) == text

\* convert_tokens_to_ids: every real token has a nonzero id, 0 is [PAD]
convert_tokens_to_ids(tokens) ==
    [i \in 1..Len(tokens) |->
        CASE tokens[i] = "[CLS]" -> 101
          [] tokens[i] = "[SEP]" -> 102
          [] tokens[i] = "q" -> 1
          [] tokens[i] = "a" -> 2
          [] tokens[i] = "b" -> 3
          [] OTHER -> 4]

----------------------------------------------------------------------------
(* _improve_answer_span (lines 488-522)                                    *)

\* A token holds no space and is not empty, so " ".join(x) = " ".join(y)
\* exactly when the token lists x and y are equal: the joined texts of line
\* 514 and line 518 are kept as token lists.

\* lines 517-520: new_end from input_end down to new_start; the first match
RECURSIVE ScanNewEnd(_, _, _, _)
ScanNewEnd(doc_tokens, new_start, new_end, tok_answer_text) ==
    IF new_end < new_start THEN [found |-> FALSE, span |-> <<0, 0>>]
    ELSE IF Slice(doc_tokens, new_start, new_end) = tok_answer_text
         THEN [found |-> TRUE, span |-> <<new_start, new_end>>]
         ELSE ScanNewEnd(doc_tokens, new_start, new_end - 1, tok_answer_text)

\* lines 516-520: new_start from input_start up to input_end
RECURSIVE ScanNewStart(_, _, _, _)
ScanNewStart(doc_tokens, new_start, input_end, tok_answer_text) ==
    IF new_start > input_end THEN [found |-> FALSE, span |-> <<0, 0>>]
    ELSE LET r == ScanNewEnd(doc_tokens, new_start, input_end, tok_answer_text)
         IN  IF r.found THEN r
             ELSE ScanNewStart(doc_tokens, new_start + 1, input_end, tok_answer_text)

\* _improve_answer_span with the outer loop running new_start downwards
\* from input_end: the last matching start is met first
improve_answer_span_descending(doc_tokens, input_start, input_end, orig_answer_text) ==
    LET RECURSIVE ScanDown(_)
        ScanDown(new_start) ==
            IF new_start < input_start THEN [found |-> FALSE, span |-> <<0, 0>>]
            ELSE LET r == ScanNewEnd(doc_tokens, new_start, input_end,
                                     tokenize(orig_answer_text))
                 IN  IF r.found THEN r ELSE ScanDown(new_start - 1)
        r == ScanDown(input_end)
    IN  IF r.found THEN r.span ELSE <<input_start, input_end>>

\* _improve_answer_span without the two loops: line 522 alone
improve_answer_span_no_scan(doc_tokens, input_start, input_end, orig_answer_text) ==
    <<input_start, input_end>>

\* the first match returns; no match returns the input span (line 522)
improve_answer_span(doc_tokens, input_start, input_end, orig_answer_text) ==
    LET r == ScanNewStart(doc_tokens, input_start, input_end, tokenize(orig_answer_text))
    IN  IF r.found THEN r.span ELSE <<input_start, input_end>>

----------------------------------------------------------------------------
(* _check_is_max_context (lines 525-559)                                   *)
(* score = min(left, right) + 0.01 * length is kept as the integer         *)
(* 100 * min(left, right) + length: the order of two scores is the same.   *)

SpanEnd(doc_span) == doc_span.start + doc_span.length - 1

SpanContains(doc_span, position) ==
    ~(position < doc_span.start) /\ ~(position > SpanEnd(doc_span))

SpanScore(doc_span, position) ==
    100 * Min(position - doc_span.start, SpanEnd(doc_span) - position)
        + doc_span.length

\* ScanSpan without the two "continue" tests of lines 548-551
ScanSpanNoContinue(best, span_index, doc_span, position) ==
    IF best.best_score_is_None
       \/ SpanScore(doc_span, position) > best.best_score
    THEN [best_score_is_None |-> FALSE,
          best_score |-> SpanScore(doc_span, position),
          best_span_index |-> span_index]
    ELSE best

\* ScanSpan with "score >= best_score" at line 555: a later span wins a tie
ScanSpanLastWins(best, span_index, doc_span, position) ==
    IF ~SpanContains(doc_span, position) THEN best
    ELSE IF best.best_score_is_None
            \/ SpanScore(doc_span, position) >= best.best_score
         THEN [best_score_is_None |-> FALSE,
               best_score |-> SpanScore(doc_span, position),
               best_span_index |-> span_index]
         ELSE best

\* one iteration of the for loop: the new (best_score, best_span_index)
ScanSpan(best, span_index, doc_span, position) ==
    IF ~SpanContains(doc_span, position) THEN best
    ELSE IF best.best_score_is_None
            \/ SpanScore(doc_span, position) > best.best_score
         THEN [best_score_is_None |-> FALSE,
               best_score |-> SpanScore(doc_span, position),
               best_span_index |-> span_index]
         ELSE best

RECURSIVE ScanSpans(_, _, _, _)
ScanSpans(spans, position, span_index, best) ==
    IF span_index >= Len(spans) THEN best
    ELSE ScanSpans(spans, position, span_index + 1,
                   ScanSpan(best, span_index, At(spans, span_index), position))

check_is_max_context(spans, cur_span_index, position) ==
    LET best == ScanSpans(spans, position, 0,
                          [best_score_is_None |-> TRUE, best_score |-> 0,
                           best_span_index |-> 0])
    IN  ~best.best_score_is_None /\ cur_span_index = best.best_span_index

----------------------------------------------------------------------------
(* convert_examples_to_features (lines 300-485), for one example.          *)

\* lines 335-343: the flat subword stream and the two index maps
AllDocTokens(doc_tokens) == Flatten([i \in 1..Len(doc_tokens) |-> tokenize(doc_tokens[i])])

TokToOrigIndex(doc_tokens) ==
    Flatten([i \in 1..Len(doc_tokens) |-> Repeat(i - 1, Len(tokenize(doc_tokens[i])))])

OrigToTokIndex(doc_tokens) ==
    [i \in 1..Len(doc_tokens) |-> Len(AllDocTokens(SubSeq(doc_tokens, 1, i - 1)))]

\* lines 351-355: the word span projected to subword coordinates
ProjectStart(ex, o2t) == At(o2t, ex.start_position)

ProjectEnd(ex, o2t, n_tokens) ==
    IF ex.end_position < Len(ex.doc_tokens) - 1
    THEN At(o2t, ex.end_position + 1) - 1
    ELSE n_tokens - 1

\* line 362 reserving two slots instead of three
MaxTokensForDocMinus2(max_seq_length, n_query) == max_seq_length - n_query - 2

\* line 362
MaxTokensForDoc(max_seq_length, n_query) == max_seq_length - n_query - 3

\* lines 330-362: tokenize the question and the document, project the answer
Tokenize ==
    /\ pc = "convert"
    /\ LET q == tokenize(example.question_text)
           qt == IF Len(q) > args.max_query_length
                 THEN SubSeq(q, 1, args.max_query_length) ELSE q
           adt == AllDocTokens(example.doc_tokens)
           o2t == OrigToTokIndex(example.doc_tokens)
           answerable == args.is_training /\ ~example.is_impossible
           improved == IF answerable
                       THEN improve_answer_span(adt, ProjectStart(example, o2t),
                                ProjectEnd(example, o2t, Len(adt)),
                                example.orig_answer_text)
                       ELSE <<-1, -1>>
       IN  /\ query_tokens' = qt
           /\ all_doc_tokens' = adt
           /\ tok_to_orig_index' = TokToOrigIndex(example.doc_tokens)
           /\ orig_to_tok_index' = o2t
           /\ tok_start_position' = IF args.is_training THEN improved[1] ELSE None
           /\ tok_end_position' = IF args.is_training THEN improved[2] ELSE None
           /\ max_tokens_for_doc' = MaxTokensForDoc(args.max_seq_length, Len(qt))
    /\ doc_spans' = <<>>
    /\ start_offset' = 0
    /\ pc' = "spans"
    /\ UNCHANGED <<args, example, features, unique_id, ctxVars, wp, fnVars>>

\* lines 372-374: the length of the span that starts at offset
SpanLength(n_tokens, offset, budget) ==
    IF n_tokens - offset > budget THEN budget ELSE n_tokens - offset

\* line 378 without the min: start_offset += doc_stride
NextOffsetNoMin(offset, length, stride) == offset + stride

\* line 378 advancing one subword less
NextOffsetOneLess(offset, length, stride) == offset + Min(length, stride) - 1

\* line 378 left out: start_offset is never advanced
NextOffsetStay(offset, length, stride) == offset

\* line 378
NextOffset(offset, length, stride) == offset + Min(length, stride)

\* lines 371-378: one iteration of the while loop, or its exit
SpanLoop ==
    /\ pc = "spans"
    /\ IF start_offset < Len(all_doc_tokens)
       THEN LET length == SpanLength(Len(all_doc_tokens), start_offset, max_tokens_for_doc)
            IN  IF Len(doc_spans) >= MaxSpans
                THEN /\ pc' = "diverged"
                     /\ UNCHANGED <<doc_spans, start_offset>>
                ELSE /\ doc_spans' = Append(doc_spans, [start |-> start_offset, length |-> length])
                     /\ IF start_offset + length = Len(all_doc_tokens)
                        THEN pc' = "windows" /\ start_offset' = start_offset
                        ELSE /\ pc' = "spans"
                             /\ start_offset' = NextOffset(start_offset, length, args.doc_stride)
       ELSE /\ pc' = "windows"
            /\ UNCHANGED <<doc_spans, start_offset>>
    /\ UNCHANGED <<args, example, query_tokens, all_doc_tokens, tok_to_orig_index,
                   orig_to_tok_index, tok_start_position, tok_end_position,
                   max_tokens_for_doc, features, unique_id, ctxVars, wp, fnVars>>

\* line 437: the number of positions before the document slice
DocOffset(n_query) == n_query + 2

\* lines 381-403: [CLS] question [SEP] slice [SEP]
WindowTokens(qt, adt, doc_span) ==
    <<"[CLS]">> \o qt \o <<"[SEP]">>
        \o Slice(adt, doc_span.start, SpanEnd(doc_span)) \o <<"[SEP]">>

\* lines 384-403 with segment_ids.append(0) at line 403: the closing
\* separator is tagged like the question
WindowSegmentIdsSepZero(n_query, doc_span) ==
    Repeat(0, n_query + 2) \o Repeat(1, Max(doc_span.length, 0)) \o <<0>>

\* lines 384-403, before padding
WindowSegmentIds(n_query, doc_span) ==
    Repeat(0, n_query + 2) \o Repeat(1, Max(doc_span.length, 0) + 1)

\* lines 393-395: window position -> document word index
TokenToOrigMap(n_query, t2o, doc_span) ==
    [k \in DocOffset(n_query)..(DocOffset(n_query) + doc_span.length - 1) |->
        At(t2o, doc_span.start + (k - DocOffset(n_query)))]

\* lines 397-399 with is_max_context = True for every token of the slice
TokenIsMaxContextAll(n_query, spans, doc_span_index) ==
    LET doc_span == At(spans, doc_span_index)
    IN  [k \in DocOffset(n_query)..(DocOffset(n_query) + doc_span.length - 1) |-> TRUE]

\* lines 397-399: window position -> is this window the owner of the token
TokenIsMaxContext(n_query, spans, doc_span_index) ==
    LET doc_span == At(spans, doc_span_index)
    IN  [k \in DocOffset(n_query)..(DocOffset(n_query) + doc_span.length - 1) |->
            check_is_max_context(spans, doc_span_index,
                                 doc_span.start + (k - DocOffset(n_query)))]

\* lines 412-415: zero-pad a list that goes with input_ids of length n_ids
Pad(lst, n_ids, max_seq_length) == lst \o Repeat(0, max_seq_length - n_ids)

\* lines 429-432
OutOfSpan(ex, tok_start, tok_end, doc_start, doc_end) ==
    \/ ex.start_position < doc_start
    \/ ex.end_position < doc_start
    \/ ex.start_position > doc_end
    \/ ex.end_position > doc_end

\* lines 421-443: the gold (start_position, end_position) of one window
GoldPositions(ex, is_training, doc_span, tok_start, tok_end, n_query) ==
    IF is_training /\ ex.is_impossible THEN <<0, 0>>
    ELSE IF is_training /\ ~ex.is_impossible
    THEN IF OutOfSpan(ex, tok_start, tok_end, doc_span.start, SpanEnd(doc_span))
         THEN <<0, 0>>
         ELSE <<tok_start - doc_span.start + DocOffset(n_query),
                tok_end - doc_span.start + DocOffset(n_query)>>
    ELSE <<None, None>>

\* lines 380-483: the InputFeatures of window doc_span_index
BuildFeature(doc_span_index) ==
    LET doc_span == At(doc_spans, doc_span_index)
        nq == Len(query_tokens)
        tokens == WindowTokens(query_tokens, all_doc_tokens, doc_span)
        ids == convert_tokens_to_ids(tokens)
        gold == GoldPositions(example, args.is_training, doc_span,
                              tok_start_position, tok_end_position, nq)
    IN  [unique_id |-> unique_id,
         example_index |-> 0,
         doc_span_index |-> doc_span_index,
         tokens |-> tokens,
         token_to_orig_map |-> TokenToOrigMap(nq, tok_to_orig_index, doc_span),
         token_is_max_context |-> TokenIsMaxContext(nq, doc_spans, doc_span_index),
         input_ids |-> Pad(ids, Len(ids), args.max_seq_length),
         input_mask |-> Pad(Repeat(1, Len(ids)), Len(ids), args.max_seq_length),
         segment_ids |-> Pad(WindowSegmentIds(nq, doc_span), Len(ids), args.max_seq_length),
         start_position |-> gold[1],
         end_position |-> gold[2],
         is_impossible |-> example.is_impossible]

\* lines 417-419
LengthAsserts(f, max_seq_length) ==
    /\ Len(f.input_ids) = max_seq_length
    /\ Len(f.input_mask) = max_seq_length
    /\ Len(f.segment_ids) = max_seq_length

\* lines 380-483: one iteration of the loop over doc_spans, or its exit
BuildWindow ==
    /\ pc = "windows"
    /\ IF Len(features) < Len(doc_spans)
       THEN LET f == BuildFeature(Len(features))
            IN  IF LengthAsserts(f, args.max_seq_length)
                THEN /\ features' = Append(features, f)
                     /\ unique_id' = unique_id + 1
                     /\ pc' = "windows"
                ELSE /\ pc' = "AssertionError"
                     /\ UNCHANGED <<features, unique_id>>
       ELSE /\ pc' = "converted"
            /\ UNCHANGED <<features, unique_id>>
    /\ UNCHANGED <<args, example, query_tokens, all_doc_tokens, tok_to_orig_index,
                   orig_to_tok_index, tok_start_position, tok_end_position,
                   max_tokens_for_doc, doc_spans, start_offset, ctxVars, wp, fnVars>>

----------------------------------------------------------------------------
(* The inputs of the conversion.                                           *)

\* line 313
FirstUniqueId == 1000000000

ConvArgs ==
    [max_seq_length : 4..MaxSeqLen, doc_stride : (-1)..MaxStride,
     max_query_length : 1..MaxQuery, is_training : BOOLEAN]

Questions == {Repeat("q", n) : n \in 1..(MaxQuery + 1)}

Docs == SeqsUpTo(Words, MaxWords)

\* the tokenized answer texts: a, b and ab
AnswerTexts == Words

\* the SquadExamples read_squad_examples builds (lines 263-295): in training an
\* answerable question has a word span inside the document and an answer
\* text, an unanswerable one has -1, -1 and ""; in prediction all are None
TrainExamples ==
    {[question_text |-> q, doc_tokens |-> d, orig_answer_text |-> t,
      start_position |-> s, end_position |-> e, is_impossible |-> FALSE] :
        q \in Questions, d \in Docs, t \in AnswerTexts,
        s \in 0..(MaxWords - 1), e \in 0..(MaxWords - 1)}
    \cup
    {[question_text |-> q, doc_tokens |-> d, orig_answer_text |-> <<>>,
      start_position |-> -1, end_position |-> -1, is_impossible |-> TRUE] :
        q \in Questions, d \in Docs}

PredictExamples ==
    {[question_text |-> q, doc_tokens |-> d, orig_answer_text |-> None,
      start_position |-> None, end_position |-> None, is_impossible |-> FALSE] :
        q \in Questions, d \in Docs}

ValidExample(ex, is_training) ==
    IF is_training
    THEN ex \in TrainExamples
         /\ (~ex.is_impossible =>
                /\ ex.start_position <= ex.end_position
                /\ ex.end_position < Len(ex.doc_tokens))
    ELSE ex \in PredictExamples

ConvIdle ==
    /\ query_tokens = <<>> /\ all_doc_tokens = <<>>
    /\ tok_to_orig_index = <<>> /\ orig_to_tok_index = <<>>
    /\ tok_start_position = None /\ tok_end_position = None
    /\ max_tokens_for_doc = 0
    /\ doc_spans = <<>> /\ start_offset = 0
    /\ features = <<>> /\ unique_id = FirstUniqueId

CtxIdle == spans_in = <<>> /\ position_in = 0 /\ owners = {}

SpanIdle == span_in = None /\ span_out = None

CacheIdle == files = None /\ run = None /\ train_features = None

FnIdle ==
    /\ text_in = None /\ text_out = None /\ reader_in = None /\ reader_out = None
    /\ SpanIdle
    /\ CacheIdle

InitConv ==
    /\ args \in ConvArgs
    /\ example \in (IF args.is_training THEN TrainExamples ELSE PredictExamples)
    /\ ValidExample(example, args.is_training)
    /\ pc = "convert"
    /\ ConvIdle
    /\ CtxIdle
    /\ wp = None
    /\ FnIdle

NextConv == Tokenize \/ SpanLoop \/ BuildWindow

SpecConv == InitConv /\ [][NextConv]_vars

----------------------------------------------------------------------------
(* _improve_answer_span on free inputs: a subword stream, a projected span *)
(* inside it (input_start > input_end included, as a file with answer_end  *)
(* before answer_start gives) and a tokenized answer text.                 *)

MaxStreamLen == 4
MaxAnswerTokens == 2

StreamTokens == {"a", "b"}

InitSpan ==
    /\ \E n \in 1..MaxStreamLen, k \in 0..MaxAnswerTokens :
          \E d \in [1..n -> StreamTokens], t \in [1..k -> StreamTokens],
             s \in 0..(n - 1), e \in 0..(n - 1) :
              span_in = [doc_tokens |-> d, input_start |-> s, input_end |-> e,
                         orig_answer_text |-> t]
    /\ span_out = None
    /\ text_in = None /\ text_out = None /\ reader_in = None /\ reader_out = None
    /\ CacheIdle
    /\ pc = "span"
    /\ args = None /\ example = None /\ wp = None
    /\ ConvIdle
    /\ CtxIdle

ImproveAnswerSpan ==
    /\ pc = "span"
    /\ span_out' = improve_answer_span(span_in.doc_tokens, span_in.input_start,
                                       span_in.input_end, span_in.orig_answer_text)
    /\ pc' = "span_done"
    /\ UNCHANGED <<convVars, ctxVars, wp, text_in, text_out, reader_in, reader_out,
                   span_in, cacheVars>>

NextSpan == ImproveAnswerSpan

SpecSpan == InitSpan /\ [][NextSpan]_vars

----------------------------------------------------------------------------
(* The conversion of a prediction example as a running program: a step     *)
(* that can be taken is taken in the end.                                  *)

InitLoop ==
    /\ args \in {a \in ConvArgs : ~a.is_training}
    /\ example \in PredictExamples
    /\ pc = "convert"
    /\ ConvIdle
    /\ CtxIdle
    /\ wp = None
    /\ FnIdle

SpecLoop == InitLoop /\ [][NextConv]_vars /\ WF_vars(NextConv)

----------------------------------------------------------------------------
(* Strings.  A Python str is the sequence of its characters; an offset into *)
(* a str is 0-based as in the program.                                     *)

\* the characters of a subword token
TokenChars(tok) ==
    CASE tok = "a" -> <<"a">>
      [] tok = "b" -> <<"b">>
      [] tok = "##b" -> <<"#", "#", "b">>
      [] tok = "q" -> <<"q">>
      [] OTHER -> <<"[", "]">>

\* "".join(sub_tokens of a word) without the ## marks: the word as written
WordText(word) ==
    Flatten([i \in 1..Len(word) |->
                IF word[i] = "##b" THEN <<"b">> ELSE TokenChars(word[i])])

\* " ".join(strs)
RECURSIVE Join(_)
Join(strs) ==
    IF strs = <<>> THEN <<>>
    ELSE IF Len(strs) = 1 THEN strs[1]
    ELSE strs[1] \o <<" ">> \o Join(Tail(strs))

\* whether pat occurs in text at 0-based offset i
OccursAt(text, pat, i) ==
    /\ i + Len(pat) <= Len(text)
    /\ \A k \in 1..Len(pat) : text[i + k] = pat[k]

\* text.find(pat): the first offset of pat, -1 when there is none
Find(text, pat) ==
    LET hits == {i \in 0..Len(text) : OccursAt(text, pat, i)}
    IN  IF hits = {} THEN -1 ELSE CHOOSE i \in hits : \A j \in hits : i <= j

\* text.replace(pat, ""), for a non-empty pat, left to right
RECURSIVE Remove(_, _)
Remove(text, pat) ==
    IF text = <<>> THEN <<>>
    ELSE IF OccursAt(text, pat, 0)
         THEN Remove(SubSeq(text, Len(pat) + 1, Len(text)), pat)
         ELSE <<text[1]>> \o Remove(Tail(text), pat)

\* text.split(): the maximal runs of non-space characters
RECURSIVE Split(_, _, _)
Split(text, cur, acc) ==
    IF text = <<>> THEN (IF cur = <<>> THEN acc ELSE Append(acc, cur))
    ELSE IF text[1] = " "
         THEN Split(Tail(text), <<>>, IF cur = <<>> THEN acc ELSE Append(acc, cur))
         ELSE Split(Tail(text), Append(cur, text[1]), acc)

\* lines 713-721: " ".join(tok_tokens) with the word pieces glued and the
\* whitespace cleaned
Detokenize(tok_tokens) ==
    LET joined == Join([i \in 1..Len(tok_tokens) |-> TokenChars(tok_tokens[i])])
        glued == Remove(Remove(joined, <<" ", "#", "#">>), <<"#", "#">>)
    IN  Join(Split(glued, <<>>, <<>>))

----------------------------------------------------------------------------
(* BasicTokenizer (pytorch_pretrained_bert.tokenization), on the characters *)
(* a b A ' ^ and space, ^ being a combining accent: lower-casing and accent *)
(* stripping when asked, splitting at whitespace and setting every          *)
(* punctuation character apart as a token of its own.                      *)

Lower(c) == IF c = "A" THEN "a" ELSE c

IsPunctuation(c) == c = "'"

\* a combining mark, which _run_strip_accents drops
IsAccent(c) == c = "^"

NotAccent(c) == ~IsAccent(c)

\* _run_split_on_punc
RECURSIVE SplitOnPunc(_, _, _)
SplitOnPunc(word, cur, acc) ==
    IF word = <<>> THEN (IF cur = <<>> THEN acc ELSE Append(acc, cur))
    ELSE IF IsPunctuation(word[1])
         THEN SplitOnPunc(Tail(word), <<>>,
                          Append(IF cur = <<>> THEN acc ELSE Append(acc, cur), <<word[1]>>))
         ELSE SplitOnPunc(Tail(word), Append(cur, word[1]), acc)

BasicTokenize(text, do_lower_case) ==
    LET cased == IF do_lower_case
                 THEN SelectSeq([i \in 1..Len(text) |-> Lower(text[i])], NotAccent)
                 ELSE text
        ws == Split(cased, <<>>, <<>>)
    IN  Flatten([i \in 1..Len(ws) |-> SplitOnPunc(ws[i], <<>>, <<>>)])

----------------------------------------------------------------------------
(* get_final_text (lines 839-932)                                          *)

\* _strip_spaces, lines 867-876: ns_to_s_map as the sequence of the offsets
\* of the non-space characters (its keys are 0..len-1 in order)
NsToSMap(text) ==
    LET S == {i \in 0..(Len(text) - 1) : text[i + 1] # " "}
        nth(k) == CHOOSE i \in S : Cardinality({j \in S : j < i}) = k
    IN  [k \in 1..Cardinality(S) |-> nth(k - 1)]

\* lines 905-913 and 920-924: an offset of tok_text mapped to orig_text through
\* the two maps; -1 stands for None
MapPosition(position, tok_ns_to_s_map, orig_ns_to_s_map) ==
    LET ks == {k \in 1..Len(tok_ns_to_s_map) : tok_ns_to_s_map[k] = position}
    IN  IF ks = {} THEN -1
        ELSE LET ns_position == (CHOOSE k \in ks : TRUE) - 1
             IN  IF ns_position + 1 \in 1..Len(orig_ns_to_s_map)
                 THEN orig_ns_to_s_map[ns_position + 1] ELSE -1

\* lines 839-932 with pred_text returned when it is not found (line 891)
get_final_text_keep_pred(pred_text, orig_text, do_lower_case) ==
    LET tok_text == Join(BasicTokenize(orig_text, do_lower_case))
        start_position == Find(tok_text, pred_text)
        end_position == start_position + Len(pred_text) - 1
        orig_ns_to_s_map == NsToSMap(orig_text)
        tok_ns_to_s_map == NsToSMap(tok_text)
        orig_start_position == MapPosition(start_position, tok_ns_to_s_map, orig_ns_to_s_map)
        orig_end_position == MapPosition(end_position, tok_ns_to_s_map, orig_ns_to_s_map)
    IN  IF start_position = -1 THEN pred_text
        ELSE IF Len(orig_ns_to_s_map) # Len(tok_ns_to_s_map) THEN orig_text
        ELSE IF orig_start_position = -1 THEN orig_text
        ELSE IF orig_end_position = -1 THEN orig_text
        ELSE SubSeq(orig_text, orig_start_position + 1, orig_end_position + 1)

\* lines 839-932 with the slice of line 931 ending before orig_end_position
get_final_text_short_slice(pred_text, orig_text, do_lower_case) ==
    LET tok_text == Join(BasicTokenize(orig_text, do_lower_case))
        start_position == Find(tok_text, pred_text)
        end_position == start_position + Len(pred_text) - 1
        orig_ns_to_s_map == NsToSMap(orig_text)
        tok_ns_to_s_map == NsToSMap(tok_text)
        orig_start_position == MapPosition(start_position, tok_ns_to_s_map, orig_ns_to_s_map)
        orig_end_position == MapPosition(end_position, tok_ns_to_s_map, orig_ns_to_s_map)
    IN  IF start_position = -1 THEN orig_text
        ELSE IF Len(orig_ns_to_s_map) # Len(tok_ns_to_s_map) THEN orig_text
        ELSE IF orig_start_position = -1 THEN orig_text
        ELSE IF orig_end_position = -1 THEN orig_text
        ELSE SubSeq(orig_text, orig_start_position + 1, orig_end_position)

get_final_text(pred_text, orig_text, do_lower_case) ==
    LET tok_text == Join(BasicTokenize(orig_text, do_lower_case))
        start_position == Find(tok_text, pred_text)
        end_position == start_position + Len(pred_text) - 1
        orig_ns_to_s_map == NsToSMap(orig_text)
        tok_ns_to_s_map == NsToSMap(tok_text)
        orig_start_position == MapPosition(start_position, tok_ns_to_s_map, orig_ns_to_s_map)
        orig_end_position == MapPosition(end_position, tok_ns_to_s_map, orig_ns_to_s_map)
    IN  IF start_position = -1 THEN orig_text
        ELSE IF Len(orig_ns_to_s_map) # Len(tok_ns_to_s_map) THEN orig_text
        ELSE IF orig_start_position = -1 THEN orig_text
        ELSE IF orig_end_position = -1 THEN orig_text
        ELSE SubSeq(orig_text, orig_start_position + 1, orig_end_position + 1)

\* get_final_text on any pair of texts
MaxOrigLen == 4      \* characters of orig_text
MaxPredLen == 3      \* characters of pred_text

OrigChars == {"a", "A", "'", "^", " "}

PredChars == {"a", "'", " "}

InitText ==
    /\ text_in \in [pred_text : SeqsUpTo(PredChars, MaxPredLen),
                     orig_text : SeqsUpTo(OrigChars, MaxOrigLen),
                     do_lower_case : BOOLEAN]
    /\ text_out = None
    /\ reader_in = None /\ reader_out = None
    /\ SpanIdle /\ CacheIdle
    /\ pc = "text"
    /\ args = None /\ example = None /\ wp = None
    /\ ConvIdle
    /\ CtxIdle

GetFinalText ==
    /\ pc = "text"
    /\ text_out' = get_final_text(text_in.pred_text, text_in.orig_text, text_in.do_lower_case)
    /\ pc' = "text_done"
    /\ UNCHANGED <<convVars, ctxVars, wp, text_in, reader_in, reader_out, spanVars, cacheVars>>

NextText == GetFinalText

SpecText == InitText /\ [][NextText]_vars

----------------------------------------------------------------------------
(* read_squad_examples (lines 122-297), for a file of one paragraph.  An   *)
(* answer of the file is [text, answer_start, answer_end]; has_answer_end  *)
(* tells whether the key "answer_end" is there.                            *)

\* lines 219-223, on the characters a and space
is_whitespace(c) == c = " "

\* lines 235-248: the loop over the characters of paragraph_text
RECURSIVE ParagraphLoop(_, _, _)
ParagraphLoop(paragraph_text, i, acc) ==
    IF i > Len(paragraph_text) THEN acc
    ELSE LET c == paragraph_text[i]
             doc_tokens ==
                 IF is_whitespace(c) THEN acc.doc_tokens
                 ELSE IF acc.prev_is_whitespace THEN Append(acc.doc_tokens, <<c>>)
                 ELSE [acc.doc_tokens EXCEPT ![Len(acc.doc_tokens)] = Append(@, c)]
         IN  ParagraphLoop(paragraph_text, i + 1,
                 [doc_tokens |-> doc_tokens,
                  char_to_word_offset |->
                      Append(acc.char_to_word_offset, Len(doc_tokens) - 1),
                  prev_is_whitespace |-> is_whitespace(c)])

\* lines 288-295
NewSquadExample(qa, doc_tokens, answer_text, start, end, is_impossible) ==
    [qas_id |-> qa.id, question_text |-> qa.question, doc_tokens |-> doc_tokens,
     orig_answer_text |-> answer_text, start_position |-> start,
     end_position |-> end, is_impossible |-> is_impossible]

\* lines 263-295 with line 272 raising for every question that does not
\* have exactly one answer, flagged unanswerable or not
ReadQaStrictCount(qa, version, is_training, doc_tokens, char_to_word_offset) ==
    LET is_impossible == IF is_training /\ version = "v2.0"
                         THEN qa.is_impossible ELSE FALSE
        answer == qa.answers[1]
    IN  IF ~is_training
        THEN [raised |-> None,
              example |-> NewSquadExample(qa, doc_tokens, None, None, None, FALSE)]
        ELSE IF Len(qa.answers) # 1
        THEN [raised |-> "ValueError", example |-> None]
        ELSE IF ~is_impossible
        THEN IF ~answer.has_answer_end
             THEN [raised |-> "KeyError", example |-> None]
             ELSE [raised |-> None,
                   example |-> NewSquadExample(qa, doc_tokens, answer.text,
                                   answer.answer_start, answer.answer_end, FALSE)]
        ELSE [raised |-> None,
              example |-> NewSquadExample(qa, doc_tokens, <<>>, -1, -1, TRUE)]

\* lines 263-295: one question of the paragraph
ReadQa(qa, version, is_training, doc_tokens, char_to_word_offset) ==
    LET is_impossible == IF is_training /\ version = "v2.0"
                         THEN qa.is_impossible ELSE FALSE
        answer == qa.answers[1]
    IN  IF ~is_training
        THEN [raised |-> None,
              example |-> NewSquadExample(qa, doc_tokens, None, None, None, FALSE)]
        ELSE IF Len(qa.answers) # 1 /\ ~is_impossible
        THEN [raised |-> "ValueError", example |-> None]
        ELSE IF ~is_impossible
        THEN IF ~answer.has_answer_end
             THEN [raised |-> "KeyError", example |-> None]
             ELSE [raised |-> None,
                   example |-> NewSquadExample(qa, doc_tokens, answer.text,
                                   answer.answer_start, answer.answer_end, FALSE)]
        ELSE [raised |-> None,
              example |-> NewSquadExample(qa, doc_tokens, <<>>, -1, -1, TRUE)]

\* lines 250-296: the loop over the questions; an exception ends the call
RECURSIVE QaLoop(_, _, _, _, _, _)
QaLoop(qas, k, version, is_training, para, examples) ==
    IF k > Len(qas) THEN [raised |-> None, examples |-> examples]
    ELSE LET r == ReadQa(qas[k], version, is_training, para.doc_tokens,
                         para.char_to_word_offset)
         IN  IF r.raised # None
             THEN [raised |-> r.raised, examples |-> None]
             ELSE QaLoop(qas, k + 1, version, is_training, para,
                         Append(examples, r.example))

\* lines 214-297: what the call returns or raises, with the word list and
\* the character-to-word map it has built for the paragraph
read_squad_examples(source, is_training) ==
    LET para == ParagraphLoop(source.context, 1,
                    [doc_tokens |-> <<>>, char_to_word_offset |-> <<>>,
                     prev_is_whitespace |-> TRUE])
        read == QaLoop(source.qas, 1, source.version, is_training, para, <<>>)
    IN  [raised |-> read.raised, examples |-> read.examples,
         doc_tokens |-> para.doc_tokens,
         char_to_word_offset |-> para.char_to_word_offset]

MaxContextLen == 3   \* characters of the paragraph
MaxQas == 2          \* questions of the paragraph
MaxAnswers == 2      \* gold answers of a question

ContextChars == {"a", " "}

Versions == {"v1.1", "v2.0"}

\* the number of words of a text
WordCount(text) == Len(Split(text, <<>>, <<>>))

\* the gold answers a file can give for the paragraph: the text with the
\* character offset at which it stands, with or without an "answer_end"
GoldAnswers(context) ==
    {a \in [text : SeqsUpTo(ContextChars, Len(context)) \ {<<>>},
            answer_start : 0..(Len(context) - 1),
            has_answer_end : BOOLEAN,
            answer_end : 0..Max(WordCount(context) - 1, 0)] :
        /\ OccursAt(context, a.text, a.answer_start)
        /\ a.text[1] # " " /\ a.text[Len(a.text)] # " "
        /\ ~a.has_answer_end => a.answer_end = 0}

\* the lists qa["answers"]: none, any one gold answer, or several; of a list
\* of several the code reads the length only
AnswerLists(context) ==
    LET G == GoldAnswers(context)
    IN  {<<>>} \cup {<<a>> : a \in G}
            \cup (IF G = {} THEN {}
                  ELSE {Repeat(CHOOSE a \in G : TRUE, n) : n \in 2..MaxAnswers})

\* the key is_impossible belongs to the v2.0 format
QasOf(context, version) ==
    [question : {<<"q">>}, answers : AnswerLists(context),
     is_impossible : IF version = "v2.0" THEN BOOLEAN ELSE {FALSE}]

\* the questions of a paragraph, numbered by their place
Numbered(qas) ==
    [k \in 1..Len(qas) |->
        [id |-> k, question |-> qas[k].question, answers |-> qas[k].answers,
         is_impossible |-> qas[k].is_impossible]]

\* a file read for prediction: the code reads no gold field of it
Unlabelled(qas) ==
    \A k \in 1..Len(qas) : qas[k].answers = <<>> /\ ~qas[k].is_impossible

InitRead ==
    /\ \E v \in Versions, c \in SeqsUpTo(ContextChars, MaxContextLen),
          n \in 1..MaxQas, is_training \in BOOLEAN :
          \E qas \in [1..n -> QasOf(c, v)] :
              /\ ~is_training => Unlabelled(qas)
              /\ reader_in = [source |-> [version |-> v, context |-> c,
                                           qas |-> Numbered(qas)],
                              is_training |-> is_training]
    /\ reader_out = None
    /\ text_in = None /\ text_out = None
    /\ SpanIdle /\ CacheIdle
    /\ pc = "read"
    /\ args = None /\ example = None /\ wp = None
    /\ ConvIdle
    /\ CtxIdle

ReadSquadExamples ==
    /\ pc = "read"
    /\ reader_out' = read_squad_examples(reader_in.source, reader_in.is_training)
    /\ pc' = IF reader_out'.raised = None THEN "read_done" ELSE reader_out'.raised
    /\ UNCHANGED <<convVars, ctxVars, wp, text_in, text_out, reader_in, spanVars, cacheVars>>

NextRead == ReadSquadExamples

SpecRead == InitRead /\ [][NextRead]_vars

----------------------------------------------------------------------------
(* write_predictions (lines 566-836), for one example.                     *)
(* A RawResult is [unique_id, start_logits, end_logits]; logits are        *)
(* integers.  The softmax probability of an n-best entry is left out: it   *)
(* takes no part in the ranking or in the answer.                          *)

\* line 613
InitialScoreNull == 1000000

\* lines 947-954 with reverse=False: the smallest logits first
get_best_indexes_ascending(logits, n_best_size) ==
    LET before(j, i) == logits[j] < logits[i] \/ (logits[j] = logits[i] /\ j < i)
        rank(i) == Cardinality({j \in 1..Len(logits) : before(j, i)})
    IN  [k \in 1..Min(Max(n_best_size, 0), Len(logits)) |->
            (CHOOSE i \in 1..Len(logits) : rank(i) = k - 1) - 1]

\* lines 947-954: the indexes of the n_best_size largest logits, largest
\* first; sorted() is stable, so equal logits keep their index order
get_best_indexes(logits, n_best_size) ==
    LET before(j, i) == logits[j] > logits[i] \/ (logits[j] = logits[i] /\ j < i)
        rank(i) == Cardinality({j \in 1..Len(logits) : before(j, i)})
    IN  [k \in 1..Min(Max(n_best_size, 0), Len(logits)) |->
            (CHOOSE i \in 1..Len(logits) : rank(i) = k - 1) - 1]

\* lines 662-676 without the test of lines 670-671
ValidPairNoContext(feature, start_index, end_index, max_answer_length) ==
    /\ ~(start_index >= Len(feature.tokens))
    /\ ~(end_index >= Len(feature.tokens))
    /\ start_index \in DOMAIN feature.token_to_orig_map
    /\ end_index \in DOMAIN feature.token_to_orig_map
    /\ ~(end_index < start_index)
    /\ ~(end_index - start_index + 1 > max_answer_length)

\* lines 662-676 without the test of lines 675-676
ValidPairNoLength(feature, start_index, end_index, max_answer_length) ==
    /\ ~(start_index >= Len(feature.tokens))
    /\ ~(end_index >= Len(feature.tokens))
    /\ start_index \in DOMAIN feature.token_to_orig_map
    /\ end_index \in DOMAIN feature.token_to_orig_map
    /\ (start_index \in DOMAIN feature.token_is_max_context
           /\ feature.token_is_max_context[start_index])
    /\ ~(end_index < start_index)

\* lines 662-676: the tests a (start_index, end_index) pair must pass
ValidPair(feature, start_index, end_index, max_answer_length) ==
    /\ ~(start_index >= Len(feature.tokens))
    /\ ~(end_index >= Len(feature.tokens))
    /\ start_index \in DOMAIN feature.token_to_orig_map
    /\ end_index \in DOMAIN feature.token_to_orig_map
    /\ (start_index \in DOMAIN feature.token_is_max_context
           /\ feature.token_is_max_context[start_index])
    /\ ~(end_index < start_index)
    /\ ~(end_index - start_index + 1 > max_answer_length)

\* lines 677-683
PrelimPrediction(feature_index, start_index, end_index, result) ==
    [feature_index |-> feature_index, start_index |-> start_index,
     end_index |-> end_index,
     start_logit |-> At(result.start_logits, start_index),
     end_logit |-> At(result.end_logits, end_index)]

\* lines 632-633 and 657-683: the candidates of one feature, in loop order
FeaturePrelims(feature_index, feature, result, n_best_size, max_answer_length) ==
    LET start_indexes == get_best_indexes(result.start_logits, n_best_size)
        end_indexes == get_best_indexes(result.end_logits, n_best_size)
        ne == Len(end_indexes)
        pairs == [k \in 1..(Len(start_indexes) * ne) |->
                    <<start_indexes[((k - 1) \div ne) + 1], end_indexes[((k - 1) % ne) + 1]>>]
        ok(pr) == ValidPair(feature, pr[1], pr[2], max_answer_length)
        kept == SelectSeq(pairs, ok)
    IN  [k \in 1..Len(kept) |->
            PrelimPrediction(feature_index, kept[k][1], kept[k][2], result)]

\* lines 650-655: one feature's update of the minimum null score
NullUpdate(null, feature_index, result) ==
    LET feature_null_score == At(result.start_logits, 0) + At(result.end_logits, 0)
    IN  IF feature_null_score < null.score_null
        THEN [score_null |-> feature_null_score,
              min_null_feature_index |-> feature_index,
              null_start_logit |-> At(result.start_logits, 0),
              null_end_logit |-> At(result.end_logits, 0)]
        ELSE null

\* lines 613-616
NullInit ==
    [score_null |-> InitialScoreNull, min_null_feature_index |-> 0,
     null_start_logit |-> 0, null_end_logit |-> 0]

\* lines 618-683: the loop over the features of the example
RECURSIVE FeatureLoop(_, _, _, _, _, _, _)
FeatureLoop(feats, results, feature_index, n_best_size, max_answer_length, is_version2, acc) ==
    IF feature_index >= Len(feats) THEN acc
    ELSE LET result == At(results, feature_index)
         IN  FeatureLoop(feats, results, feature_index + 1, n_best_size,
                         max_answer_length, is_version2,
                         [null |-> IF is_version2
                                   THEN NullUpdate(acc.null, feature_index, result)
                                   ELSE acc.null,
                          prelim_predictions |->
                              acc.prelim_predictions \o
                              FeaturePrelims(feature_index, At(feats, feature_index),
                                             result, n_best_size, max_answer_length)])

\* lines 685-692: the no-answer candidate
NullPrediction(null) ==
    [feature_index |-> null.min_null_feature_index, start_index |-> 0,
     end_index |-> 0, start_logit |-> null.null_start_logit,
     end_logit |-> null.null_end_logit]

\* lines 694-697: sorted(..., reverse=True) by start_logit + end_logit, stable
SortPrelims(preds) ==
    LET key(k) == preds[k].start_logit + preds[k].end_logit
        before(j, k) == key(j) > key(k) \/ (key(j) = key(k) /\ j < k)
        rank(k) == Cardinality({j \in 1..Len(preds) : before(j, k)})
    IN  [r \in 1..Len(preds) |-> preds[CHOOSE k \in 1..Len(preds) : rank(k) = r - 1]]

\* lines 709-724: the text of a candidate, projected on the original words
FinalText(ex, feature, pred, do_lower_case) ==
    LET tok_tokens == Slice(feature.tokens, pred.start_index, pred.end_index)
        orig_doc_start == feature.token_to_orig_map[pred.start_index]
        orig_doc_end == feature.token_to_orig_map[pred.end_index]
        orig_tokens == Slice(ex.doc_tokens, orig_doc_start, orig_doc_end)
        orig_text == Join([i \in 1..Len(orig_tokens) |-> WordText(orig_tokens[i])])
    IN  get_final_text(Detokenize(tok_tokens), orig_text, do_lower_case)

NbestPrediction(text, start_logit, end_logit) ==
    [text |-> text, start_logit |-> start_logit, end_logit |-> end_logit]

\* lines 704-736: the loop over the sorted candidates; acc holds nbest,
\* seen_predictions and the exception raised, if any
RECURSIVE NbestLoop(_, _, _, _, _, _, _)
NbestLoop(ex, feats, preds, k, n_best_size, do_lower_case, acc) ==
    IF k > Len(preds) THEN acc
    ELSE IF Len(acc.nbest) >= n_best_size THEN acc
    ELSE IF ~(preds[k].feature_index < Len(feats))
         THEN [acc EXCEPT !.raised = "IndexError"]
    ELSE LET pred == preds[k]
             feature == At(feats, pred.feature_index)
         IN  IF pred.start_index > 0
             THEN LET final_text == FinalText(ex, feature, pred, do_lower_case)
                  IN  IF final_text \in acc.seen_predictions
                      THEN NbestLoop(ex, feats, preds, k + 1, n_best_size, do_lower_case, acc)
                      ELSE NbestLoop(ex, feats, preds, k + 1, n_best_size, do_lower_case,
                               [acc EXCEPT
                                  !.seen_predictions = @ \cup {final_text},
                                  !.nbest = Append(@, NbestPrediction(final_text,
                                                pred.start_logit, pred.end_logit))])
             ELSE NbestLoop(ex, feats, preds, k + 1, n_best_size, do_lower_case,
                      [acc EXCEPT
                         !.seen_predictions = @ \cup {<<>>},
                         !.nbest = Append(@, NbestPrediction(<<>>,
                                       pred.start_logit, pred.end_logit))])

\* line 750: the text "empty"
EmptyWord == <<"e", "m", "p", "t", "y">>

\* lines 738-750 with nbest.insert(0, ...) at line 740: the no-answer entry
\* is put in front
CompleteNbestNullFirst(nbest, seen_predictions, is_version2, null) ==
    LET with_null == IF is_version2 /\ <<>> \notin seen_predictions
                     THEN <<NbestPrediction(<<>>, null.null_start_logit,
                                            null.null_end_logit)>> \o nbest
                     ELSE nbest
    IN  IF with_null = <<>> THEN <<NbestPrediction(EmptyWord, 0, 0)>> ELSE with_null

\* lines 738-750: the no-answer entry and the nonce entry
CompleteNbest(nbest, seen_predictions, is_version2, null) ==
    LET with_null == IF is_version2 /\ <<>> \notin seen_predictions
                     THEN Append(nbest, NbestPrediction(<<>>, null.null_start_logit,
                                                         null.null_end_logit))
                     ELSE nbest
    IN  IF with_null = <<>> THEN <<NbestPrediction(EmptyWord, 0, 0)>> ELSE with_null

\* lines 755-764: the index in nbest of the first entry with a non-empty
\* text, 0 when there is none (best_non_null_entry stays None)
BestNonNull(nbest) ==
    LET S == {i \in 1..Len(nbest) : nbest[i].text # <<>>}
    IN  IF S = {} THEN 0 ELSE CHOOSE i \in S : \A j \in S : i <= j

\* lines 803-804
ScoreDiff(score_null, entry) == score_null - entry.start_logit - entry.end_logit

\* lines 806-812 with >= for >
NullDecisionAtThreshold(score_diff, null_score_diff_threshold, entry) ==
    IF score_diff >= null_score_diff_threshold THEN <<>> ELSE entry.text

\* lines 806-812
NullDecision(score_diff, null_score_diff_threshold, entry) ==
    IF score_diff > null_score_diff_threshold THEN <<>> ELSE entry.text

\* lines 608-813 for the example: the outputs, or the exception raised.
\* all_predictions_type is the Python type of the value stored in
\* all_predictions[example.qas_id]: a str (lines 810, 812) or a list (line 793);
\* has_score_diff is whether example.qas_id is a key of scores_diff_json.
write_predictions(ex, feats, in) ==
    LET looped == FeatureLoop(feats, in.all_results, 0, in.n_best_size,
                              in.max_answer_length, in.is_version2,
                              [null |-> NullInit, prelim_predictions |-> <<>>])
        null == looped.null
        prelims == SortPrelims(IF in.is_version2
                               THEN Append(looped.prelim_predictions, NullPrediction(null))
                               ELSE looped.prelim_predictions)
        ranked == NbestLoop(ex, feats, prelims, 1, in.n_best_size, in.do_lower_case,
                            [nbest |-> <<>>, seen_predictions |-> {}, raised |-> None])
        nbest == CompleteNbest(ranked.nbest, ranked.seen_predictions, in.is_version2, null)
        best == BestNonNull(nbest)
        out == [in |-> in, null |-> null, prelim_predictions |-> prelims,
                nbest |-> <<>>, all_predictions |-> None, all_predictions_type |-> None,
                scores_diff_json |-> None, has_score_diff |-> FALSE, raised |-> None]
    IN  IF ranked.raised # None
        THEN [out EXCEPT !.raised = ranked.raised]
        ELSE IF ~in.is_version2
        THEN [out EXCEPT !.nbest = nbest,
                         !.all_predictions_type = "list",
                         !.all_predictions = <<nbest[1].text, nbest[1].start_logit,
                                               nbest[1].end_logit>>]
        ELSE IF best = 0
        THEN [out EXCEPT !.nbest = nbest, !.raised = "AttributeError"]
        ELSE [out EXCEPT !.nbest = nbest,
                         !.all_predictions_type = "str",
                         !.has_score_diff = TRUE,
                         !.scores_diff_json = ScoreDiff(null.score_null, nbest[best]),
                         !.all_predictions =
                             NullDecision(ScoreDiff(null.score_null, nbest[best]),
                                          in.null_score_diff_threshold, nbest[best])]

----------------------------------------------------------------------------
(* Prediction: the example is converted with is_training = False, the      *)
(* model scores every window, write_predictions aggregates.                *)

MaxNBest == 2        \* largest --n_best_size explored
MaxAnswerLen == 2    \* largest --max_answer_length explored
MaxPredWords == 2    \* document words of an example that is scored

\* the scores the model gives a real position; question, separator and
\* padding positions score below all of them
LogitValues == {0, 1}

Thresholds == {0, 1}

\* positions of a window whose scores vary: [CLS] and the document slice
ScoredPositions(feature) == {0} \cup DOMAIN feature.token_to_orig_map

LogitArrays(feature) ==
    {[i \in 1..Len(feature.input_ids) |->
        IF (i - 1) \in ScoredPositions(feature) THEN g[i - 1] ELSE -1] :
            g \in [ScoredPositions(feature) -> LogitValues]}

\* lines 1316-1339: one RawResult per feature
RawResults(feature) ==
    [unique_id : {feature.unique_id}, start_logits : LogitArrays(feature),
     end_logits : LogitArrays(feature)]

RECURSIVE AllResults(_, _)
AllResults(feats, k) ==
    IF k = 0 THEN {<<>>}
    ELSE {Append(rs, r) : rs \in AllResults(feats, k - 1), r \in RawResults(feats[k])}

\* the arguments of write_predictions other than the examples and features
PredInputs(feats) ==
    [n_best_size : 1..MaxNBest, max_answer_length : 1..MaxAnswerLen,
     is_version2 : BOOLEAN, null_score_diff_threshold : Thresholds,
     do_lower_case : {TRUE}, all_results : AllResults(feats, Len(feats))]

WritePredictions ==
    /\ pc = "converted"
    /\ ~args.is_training
    /\ wp = None
    /\ \E in \in PredInputs(features) :
          /\ wp' = write_predictions(example, features, in)
          /\ pc' = IF wp'.raised = None THEN "written" ELSE wp'.raised
    /\ UNCHANGED <<convVars, ctxVars, fnVars>>

PredWords == {<<"a">>, <<"a", "##b">>}

\* documents of at most three subwords: one or two windows of two subwords
PredDocs == {d \in SeqsUpTo(PredWords, MaxPredWords) : Len(AllDocTokens(d)) <= 3}

InitPred ==
    /\ args \in [max_seq_length : {6}, doc_stride : 1..MaxStride,
                  max_query_length : {1}, is_training : {FALSE}]
    /\ example \in {ex \in PredictExamples :
                        ex.question_text = <<"q">> /\ ex.doc_tokens \in PredDocs}
    /\ pc = "convert"
    /\ ConvIdle
    /\ CtxIdle
    /\ wp = None
    /\ FnIdle

NextPred == Tokenize \/ SpanLoop \/ BuildWindow \/ WritePredictions

SpecPred == InitPred /\ [][NextPred]_vars

----------------------------------------------------------------------------
(* Prediction over two overlapping windows: a document of four subwords in  *)
(* windows of three with stride one, the model scoring a document token the *)
(* same in every window that holds it.                                      *)

\* the document position of window position i, -1 for [CLS]
ScoreKey(feature, i) ==
    IF i = 0 THEN -1
    ELSE At(doc_spans, feature.doc_span_index).start + (i - DocOffset(Len(query_tokens)))

\* the logits of every window under one scoring g of [CLS] and the document
SharedLogits(feats, g) ==
    [k \in 1..Len(feats) |->
        [i \in 1..Len(feats[k].input_ids) |->
            IF (i - 1) \in ScoredPositions(feats[k])
            THEN g[ScoreKey(feats[k], i - 1)] ELSE -1]]

SharedScorings == [(-1)..(Len(all_doc_tokens) - 1) -> LogitValues]

\* lines 1316-1339: one RawResult per feature
SharedResults(feats) ==
    {[k \in 1..Len(feats) |->
        [unique_id |-> feats[k].unique_id,
         start_logits |-> SharedLogits(feats, gs)[k],
         end_logits |-> SharedLogits(feats, ge)[k]]] :
            gs \in SharedScorings, ge \in SharedScorings}

SharedInputs(feats) ==
    [n_best_size : 1..MaxNBest, max_answer_length : 1..MaxAnswerLen,
     is_version2 : BOOLEAN, null_score_diff_threshold : Thresholds,
     do_lower_case : {TRUE}, all_results : SharedResults(feats)]

WriteSharedPredictions ==
    /\ pc = "converted"
    /\ ~args.is_training
    /\ wp = None
    /\ \E in \in SharedInputs(features) :
          /\ wp' = write_predictions(example, features, in)
          /\ pc' = IF wp'.raised = None THEN "written" ELSE wp'.raised
    /\ UNCHANGED <<convVars, ctxVars, fnVars>>

TwoWindowDocs ==
    {<<<<"a">>, <<"a">>, <<"a">>, <<"a">>>>,
     <<<<"a">>, <<"a", "##b">>, <<"a">>>>,
     <<<<"a", "##b">>, <<"a", "##b">>>>}

InitTwoWindows ==
    /\ args \in [max_seq_length : {7}, doc_stride : {1},
                  max_query_length : {1}, is_training : {FALSE}]
    /\ example \in {ex \in PredictExamples :
                        ex.question_text = <<"q">> /\ ex.doc_tokens \in TwoWindowDocs}
    /\ pc = "convert"
    /\ ConvIdle
    /\ CtxIdle
    /\ wp = None
    /\ FnIdle

NextTwoWindows == Tokenize \/ SpanLoop \/ BuildWindow \/ WriteSharedPredictions

SpecTwoWindows == InitTwoWindows /\ [][NextTwoWindows]_vars

----------------------------------------------------------------------------
(* Prediction with free [CLS] scores: the two windows of the documents      *)
(* above, every document position scored 0, and the start and end score of  *)
(* [CLS] drawn per window from small values and from half the initial       *)
(* score_null of line 613.                                                  *)

MarkerLogits == {0, 1, InitialScoreNull \div 2}

\* the logits of a window whose [CLS] position scores m
MarkerArray(feature, m) ==
    [i \in 1..Len(feature.input_ids) |->
        IF i = 1 THEN m
        ELSE IF (i - 1) \in ScoredPositions(feature) THEN 0 ELSE -1]

\* lines 1316-1339: one RawResult per feature
MarkerResults(feats) ==
    {[k \in 1..Len(feats) |->
        [unique_id |-> feats[k].unique_id,
         start_logits |-> MarkerArray(feats[k], ms[k]),
         end_logits |-> MarkerArray(feats[k], me[k])]] :
            ms \in [1..Len(feats) -> MarkerLogits], me \in [1..Len(feats) -> MarkerLogits]}

MarkerInputs(feats) ==
    [n_best_size : 1..MaxNBest, max_answer_length : 1..MaxAnswerLen,
     is_version2 : BOOLEAN, null_score_diff_threshold : Thresholds,
     do_lower_case : {TRUE}, all_results : MarkerResults(feats)]

WriteMarkerPredictions ==
    /\ pc = "converted"
    /\ ~args.is_training
    /\ wp = None
    /\ \E in \in MarkerInputs(features) :
          /\ wp' = write_predictions(example, features, in)
          /\ pc' = IF wp'.raised = None THEN "written" ELSE wp'.raised
    /\ UNCHANGED <<convVars, ctxVars, fnVars>>

NextMarker == Tokenize \/ SpanLoop \/ BuildWindow \/ WriteMarkerPredictions

SpecMarker == InitTwoWindows /\ [][NextMarker]_vars

----------------------------------------------------------------------------
(* The feature cache of main (lines 1194-1212), over several runs of the   *)
(* program on one disk.  A file name is the sequence of its characters; a  *)
(* file holds pickled features, bytes that are no pickle, or cannot be     *)
(* opened.  The features convert_examples_to_features gives for a train    *)
(* file, a model (its tokenizer) and the three lengths are named by those  *)
(* five values.                                                            *)

MaxRuns == 2

Digit(n) == <<"0", "1", "2", "3", "4", "5", "6", "7", "8", "9">>[n + 1]

\* str(n) for n >= 0
RECURSIVE Str(_)
Str(n) == IF n < 10 THEN <<Digit(n)>> ELSE Str(n \div 10) \o <<Digit(n % 10)>>

\* lines 1195-1196
CachedTrainFeaturesFile(a) ==
    a.train_file \o <<"_">> \o a.bert_model \o <<"_">> \o Str(a.max_seq_length)
        \o <<"_">> \o Str(a.doc_stride) \o <<"_">> \o Str(a.max_query_length)

\* lines 1201-1207: the features of this run's arguments
ConvertedFeatures(a) ==
    [train_file |-> a.train_file, bert_model |-> a.bert_model,
     max_seq_length |-> a.max_seq_length, doc_stride |-> a.doc_stride,
     max_query_length |-> a.max_query_length]

\* lines 1199-1200: open(..., "rb") and pickle.load succeed
CacheReadable(fs, name) ==
    name \in DOMAIN fs /\ fs[name].kind = "features"

\* lines 1197-1212: the outcomes of the try / except; a file that cannot be
\* opened for reading may or may not be opened for writing
LoadOrConvert(fs, a, may_write) ==
    LET name == CachedTrainFeaturesFile(a)
        converted == ConvertedFeatures(a)
        saved == [n \in DOMAIN fs \cup {name} |->
                    IF n = name THEN [kind |-> "features", features |-> converted]
                    ELSE fs[n]]
    IN  IF CacheReadable(fs, name)
        THEN {[raised |-> None, train_features |-> fs[name].features, files |-> fs]}
        ELSE IF ~a.saves
        THEN {[raised |-> None, train_features |-> converted, files |-> fs]}
        ELSE IF name \in DOMAIN fs /\ fs[name].kind = "unreadable" /\ ~may_write
        THEN {[raised |-> "PermissionError", train_features |-> converted, files |-> fs]}
        ELSE {[raised |-> None, train_features |-> converted, files |-> saved]}

CacheTrainFiles == {<<"t">>, <<"t", "_", "m">>}
CacheBertModels == {<<"m">>, <<"m", "_", "m">>}

\* lines 1015-1072 and 1209: the arguments the cache depends on; saves is
\* local_rank == -1 or torch.distributed.get_rank() == 0
CacheArgs ==
    [train_file : CacheTrainFiles, bert_model : CacheBertModels,
     max_seq_length : {9, 10}, doc_stride : {1, 2}, max_query_length : {1},
     saves : BOOLEAN]

\* what is on disk before the first run: nothing, or a file of the cache's
\* name that is no pickle or cannot be opened
InitCache ==
    /\ \E a \in CacheArgs :
          /\ run = [args |-> a, n |-> 1]
          /\ \/ files = <<>>
             \/ \E kind \in {"garbage", "unreadable"} :
                   files = [n \in {CachedTrainFeaturesFile(a)} |-> [kind |-> kind]]
    /\ train_features = None
    /\ pc = "cache"
    /\ text_in = None /\ text_out = None /\ reader_in = None /\ reader_out = None
    /\ SpanIdle
    /\ args = None /\ example = None /\ wp = None
    /\ ConvIdle
    /\ CtxIdle

\* lines 1194-1212
LoadTrainFeatures ==
    /\ pc = "cache"
    /\ \E may_write \in BOOLEAN :
          \E out \in LoadOrConvert(files, run.args, may_write) :
              /\ train_features' = out.train_features
              /\ files' = out.files
              /\ pc' = IF out.raised = None THEN "training" ELSE out.raised
    /\ UNCHANGED <<convVars, ctxVars, wp, text_in, text_out, reader_in, reader_out,
                   spanVars, run>>

\* the program is started again, on the same disk
RunAgain ==
    /\ pc = "training"
    /\ run.n < MaxRuns
    /\ \E a \in CacheArgs : run' = [args |-> a, n |-> run.n + 1]
    /\ train_features' = None
    /\ pc' = "cache"
    /\ UNCHANGED <<convVars, ctxVars, wp, text_in, text_out, reader_in, reader_out,
                   spanVars, files>>

NextCache == LoadTrainFeatures \/ RunAgain

SpecCache == InitCache /\ [][NextCache]_vars

----------------------------------------------------------------------------
(* _check_is_max_context on any list of spans.                             *)

MaxCtxSpans == 3     \* spans in the list handed to _check_is_max_context
MaxCtxPos == 3       \* largest span start and span length in that list

CtxSpans == [start : 0..MaxCtxPos, length : 0..MaxCtxPos]

InitCtx ==
    /\ spans_in \in SeqsUpTo(CtxSpans, MaxCtxSpans)
    /\ position_in \in 0..(2 * MaxCtxPos)
    /\ owners = {}
    /\ pc = "ctx"
    /\ args = None /\ example = None /\ wp = None
    /\ ConvIdle
    /\ FnIdle

\* the span indexes for which _check_is_max_context answers True
CheckAll ==
    /\ pc = "ctx"
    /\ owners' = {i \in 0..(Len(spans_in) - 1) :
                    check_is_max_context(spans_in, i, position_in)}
    /\ pc' = "ctx_done"
    /\ UNCHANGED <<convVars, spans_in, position_in, wp, fnVars>>

NextCtx == CheckAll

SpecCtx == InitCtx /\ [][NextCtx]_vars

----------------------------------------------------------------------------
(* Properties of the window builder.                                       *)

Answerable == args.is_training /\ ~example.is_impossible

SpanOf(f) == At(doc_spans, f.doc_span_index)

InSlice(p, doc_span) == doc_span.start <= p /\ p <= SpanEnd(doc_span)

FeatureSet == {features[i] : i \in 1..Len(features)}

\* C1: for an answerable training example, a window whose slice holds both
\* projected subword endpoints gets gold = endpoint - span.start + len(q) + 2,
\* and a window whose slice misses one of them gets gold start = end = 0.
C1_Claim ==
    (pc \in {"windows", "converted"} /\ Answerable) =>
        \A f \in FeatureSet :
            IF InSlice(tok_start_position, SpanOf(f)) /\ InSlice(tok_end_position, SpanOf(f))
            THEN /\ f.start_position = tok_start_position - SpanOf(f).start + Len(query_tokens) + 2
                 /\ f.end_position = tok_end_position - SpanOf(f).start + Len(query_tokens) + 2
            ELSE f.start_position = 0 /\ f.end_position = 0

\* C2: in training every Feature's gold positions are both 0, or both are
\* document-slice positions of that Feature in order, hence inside
\* [0, max_seq_length); for an unanswerable example they are 0 and 0.
C2_Claim ==
    (pc \in {"windows", "converted"} /\ args.is_training) =>
        \A f \in FeatureSet :
            /\ \/ f.start_position = 0 /\ f.end_position = 0
               \/ /\ Len(query_tokens) + 2 <= f.start_position
                  /\ f.start_position <= f.end_position
                  /\ f.end_position <= Len(query_tokens) + 1 + SpanOf(f).length
            /\ f.start_position \in 0..(args.max_seq_length - 1)
            /\ f.end_position \in 0..(args.max_seq_length - 1)
            /\ example.is_impossible => (f.start_position = 0 /\ f.end_position = 0)

Partitioned == pc \in {"windows", "converted"}

Covered(p) == \E i \in 1..Len(doc_spans) : InSlice(p, doc_spans[i])

\* C4: the spans cover exactly [0, len(all_doc_tokens)) without a gap, the
\* first starts at 0, consecutive starts advance by at most doc_stride, and
\* the last span, and only the last, ends at the end of the stream.
C4_Partition ==
    Partitioned =>
        LET n == Len(all_doc_tokens)
            k == Len(doc_spans)
        IN  /\ \A p \in 0..(n - 1) : Covered(p)
            /\ \A i \in 1..k : doc_spans[i].start >= 0 /\ doc_spans[i].length >= 1
                                /\ SpanEnd(doc_spans[i]) <= n - 1
            /\ k > 0 => doc_spans[1].start = 0
            /\ \A i \in 1..(k - 1) :
                    /\ doc_spans[i + 1].start <= doc_spans[i].start + doc_spans[i].length
                    /\ doc_spans[i + 1].start - doc_spans[i].start <= args.doc_stride
            /\ \A i \in 1..k : (SpanEnd(doc_spans[i]) = n - 1) <=> (i = k)

C4_Witness ==
    /\ pc = "converted"
    /\ Len(doc_spans) >= 3
    /\ args.doc_stride < max_tokens_for_doc
    /\ doc_spans[Len(doc_spans)].length < max_tokens_for_doc

\* the number of document positions spans i and i+1 share
Overlap(i) ==
    Cardinality({p \in 0..(Len(all_doc_tokens) - 1) :
                    InSlice(p, doc_spans[i]) /\ InSlice(p, doc_spans[i + 1])})

\* C5 as stated: consecutive spans share at most length - doc_stride positions,
\* for every budget and stride.
C5_Claim ==
    Partitioned =>
        \A i \in 1..(Len(doc_spans) - 1) :
            Overlap(i) <= doc_spans[i].length - args.doc_stride

\* C5 amended: consecutive spans share at most max(0, length - doc_stride)
\* positions: none when the stride is the span length or more.
C5_Amended ==
    Partitioned =>
        \A i \in 1..(Len(doc_spans) - 1) :
            Overlap(i) <= Max(0, doc_spans[i].length - args.doc_stride)

C5_Witness ==
    /\ pc = "converted"
    /\ Len(doc_spans) >= 2
    /\ args.doc_stride > doc_spans[1].length
    /\ Overlap(1) = 0

\* C6: every example is left with one or more Features.
C6_Claim == pc = "converted" => Len(features) >= 1

\* C7: when the question uses up the budget (max_tokens_for_doc <= 0) and the
\* document is not empty, the conversion still finishes: the window loop does
\* not run on without end.
C7_Claim ==
    (pc # "convert" /\ max_tokens_for_doc <= 0 /\ Len(all_doc_tokens) > 0)
        => pc # "diverged"

\* With the budget used up and a document to slice, neither exit of the window
\* loop is ever taken: start_offset + length stays below len(all_doc_tokens).
BudgetUsedUpNeverExits ==
    (pc # "convert" /\ max_tokens_for_doc <= 0 /\ Len(all_doc_tokens) > 0)
        => pc \in {"spans", "diverged"}

\* C8: input_ids, input_mask and segment_ids of every Feature have length
\* max_seq_length, and the three length assertions never fail.
C8_FixedLength ==
    /\ pc # "AssertionError"
    /\ \A f \in FeatureSet :
          /\ Len(f.input_ids) = args.max_seq_length
          /\ Len(f.input_mask) = args.max_seq_length
          /\ Len(f.segment_ids) = args.max_seq_length

C8_Witness ==
    /\ pc = "converted"
    /\ \E f \in FeatureSet : Len(f.tokens) < args.max_seq_length
    /\ \E f \in FeatureSet : Len(f.tokens) = args.max_seq_length

----------------------------------------------------------------------------
(* Properties of the max-context resolver.                                 *)

Covering == {i \in 0..(Len(spans_in) - 1) :
                /\ spans_in[i + 1].start <= position_in
                /\ position_in <= spans_in[i + 1].start + spans_in[i + 1].length - 1}

\* C9: over any list of spans, a position covered by one span is owned by
\* it, a position covered by several has exactly one owner among them, and a
\* span that does not contain the position is never its owner.
C9_OneOwner ==
    pc = "ctx_done" =>
        /\ owners \subseteq Covering
        /\ Covering # {} => Cardinality(owners) = 1

C9_Witness ==
    /\ pc = "ctx_done"
    /\ Cardinality(Covering) = 3
    /\ Len(spans_in) = 3
    /\ owners = {1}

----------------------------------------------------------------------------
(* Properties of the prediction aggregator.                                *)

Aggregated == pc \in {"written", "IndexError", "AttributeError"}

\* C3: in both null-answer modes, also when no (start, end) pair survives
\* the filters and when the example owns no Feature, the aggregation raises
\* nothing and the example's n-best list has at least one entry.
C3_Claim ==
    Aggregated => (wp.raised = None /\ Len(wp.nbest) >= 1)

NonNullEntries == {i \in 1..Len(wp.nbest) : wp.nbest[i].text # <<>>}

\* C10: with null answers enabled, diff = score_null - (start_logit +
\* end_logit of the first n-best entry with a non-empty text); the answer is
\* "" exactly when diff > null_score_diff_threshold and that entry's text
\* otherwise.
C10_NullDecision ==
    (pc = "written" /\ wp.in.is_version2) =>
        /\ NonNullEntries # {}
        /\ LET b == CHOOSE i \in NonNullEntries : \A j \in NonNullEntries : i <= j
               diff == wp.null.score_null
                         - (wp.nbest[b].start_logit + wp.nbest[b].end_logit)
           IN  /\ wp.scores_diff_json = diff
               /\ (wp.all_predictions = <<>>) <=> (diff > wp.in.null_score_diff_threshold)
               /\ ~(diff > wp.in.null_score_diff_threshold)
                     => wp.all_predictions = wp.nbest[b].text

C10_Witness ==
    /\ pc = "written"
    /\ wp.in.is_version2
    /\ Len(features) = 2
    /\ Len(wp.nbest) >= 2
    /\ wp.nbest[1].text = <<>>
    /\ wp.scores_diff_json > wp.in.null_score_diff_threshold
    /\ wp.all_predictions = <<>>

\* C11: with null answers disabled, the value recorded as the example's best
\* answer is the text of the first n-best entry (the surviving candidate with
\* the largest start_logit + end_logit, or the placeholder).
C11_Claim ==
    (pc = "written" /\ ~wp.in.is_version2) =>
        /\ wp.all_predictions_type = "str"
        /\ wp.all_predictions = wp.nbest[1].text

\* C12: the score difference diff is recorded for every example aggregated,
\* with null answers enabled and with null answers disabled.
C12_Claim ==
    pc = "written" => wp.has_score_diff

\* C13: in both null-answer modes the n-best list of an example holds
\* pairwise distinct texts and at most n_best_size entries.
C13_Claim ==
    pc = "written" =>
        /\ \A i, j \in 1..Len(wp.nbest) :
              i # j => wp.nbest[i].text # wp.nbest[j].text
        /\ Len(wp.nbest) <= wp.in.n_best_size

\* the (start, end) score sums of the document positions of window k
PairSums(k) ==
    LET D == DOMAIN features[k].token_to_orig_map
    IN  {At(wp.in.all_results[k].start_logits, s) + At(wp.in.all_results[k].end_logits, e) :
            s \in D, e \in D}

\* the sum of the two [CLS] scores of window k
MarkerSum(k) ==
    At(wp.in.all_results[k].start_logits, 0) + At(wp.in.all_results[k].end_logits, 0)

\* on every window the [CLS] sum exceeds every document pair sum of the
\* window by more than the threshold
MarkerDominates ==
    \A k \in 1..Len(features) :
        \A sum \in PairSums(k) : MarkerSum(k) - sum > wp.in.null_score_diff_threshold

\* C14: with null answers enabled and the [CLS] sum of every window above
\* every document pair sum of that window by more than the threshold, the
\* aggregation completes and the example is answered "".
C14_Claim ==
    (Aggregated /\ wp.in.is_version2 /\ Len(features) >= 1 /\ MarkerDominates) =>
        /\ pc = "written"
        /\ wp.all_predictions = <<>>

\* the window position of document position d in window k (1-based k)
WindowIndex(k, d) ==
    d - SpanOf(features[k]).start + DocOffset(Len(query_tokens))

\* document spans (ds, de) that lie in the first and in the second window
\* and whose start token has its maximum context in the second window
StraddlingSpans ==
    {sp \in (0..(Len(all_doc_tokens) - 1)) \X (0..(Len(all_doc_tokens) - 1)) :
        /\ sp[1] <= sp[2]
        /\ \A k \in 1..2 : InSlice(sp[1], SpanOf(features[k]))
                              /\ InSlice(sp[2], SpanOf(features[k]))
        /\ features[2].token_is_max_context[WindowIndex(2, sp[1])]}

\* the candidates of window k (1-based) for the document span sp
CandidatesOf(k, sp) ==
    {i \in 1..Len(wp.prelim_predictions) :
        /\ wp.prelim_predictions[i].start_index > 0
        /\ wp.prelim_predictions[i].feature_index = k - 1
        /\ wp.prelim_predictions[i].start_index = WindowIndex(k, sp[1])
        /\ wp.prelim_predictions[i].end_index = WindowIndex(k, sp[2])}

\* whether window k (1-based) proposes the document span sp: both ends among
\* the n_best_size best indexes, the length within max_answer_length
Proposed(k, sp) ==
    LET starts == get_best_indexes(wp.in.all_results[k].start_logits, wp.in.n_best_size)
        ends == get_best_indexes(wp.in.all_results[k].end_logits, wp.in.n_best_size)
    IN  /\ \E i \in 1..Len(starts) : starts[i] = WindowIndex(k, sp[1])
        /\ \E i \in 1..Len(ends) : ends[i] = WindowIndex(k, sp[2])
        /\ sp[2] - sp[1] + 1 <= wp.in.max_answer_length

\* C15: with two overlapping windows and a span that lies in both but whose
\* start token is max-context-owned by the second, no candidate of the first
\* window for the span survives the filters, and the second window's
\* candidate survives whenever the second window proposes the span.
C15_SecondWindow ==
    (Aggregated /\ Len(features) = 2) =>
        \A sp \in StraddlingSpans :
            /\ CandidatesOf(1, sp) = {}
            /\ Proposed(2, sp) => CandidatesOf(2, sp) # {}

C15_Witness ==
    /\ pc = "written"
    /\ Len(features) = 2
    /\ \E sp \in StraddlingSpans :
          /\ Proposed(1, sp)
          /\ Proposed(2, sp)
          /\ CandidatesOf(2, sp) # {}

\* whether logits has its strict maximum at window position i
StrictMaxAt(logits, i) ==
    \A j \in 0..(Len(logits) - 1) : j # i => At(logits, j) < At(logits, i)

\* the window position pairs (s, e) of the single window that the scores
\* single out: strict maxima in the document slice, s <= e, length allowed
SingledOut ==
    LET D == DOMAIN features[1].token_to_orig_map
    IN  {se \in D \X D :
            /\ StrictMaxAt(wp.in.all_results[1].start_logits, se[1])
            /\ StrictMaxAt(wp.in.all_results[1].end_logits, se[2])
            /\ se[1] <= se[2]
            /\ se[2] - se[1] + 1 <= wp.in.max_answer_length}

\* C16: with a single window whose start scores have their strict maximum
\* at document-slice position s and end scores at e, s <= e, within
\* max_answer_length, the aggregation completes, the top candidate is (s, e)
\* and the first n-best entry is non-null and carries the text and the
\* scores of the span (s, e).
C16_TopSpan ==
    (Aggregated /\ Len(features) = 1) =>
        \A se \in SingledOut :
            /\ pc = "written"
            /\ Len(wp.prelim_predictions) >= 1
            /\ wp.prelim_predictions[1].feature_index = 0
            /\ wp.prelim_predictions[1].start_index = se[1]
            /\ wp.prelim_predictions[1].end_index = se[2]
            /\ wp.nbest[1].text # <<>>
            /\ wp.nbest[1].text =
                  FinalText(example, features[1],
                            [start_index |-> se[1], end_index |-> se[2]],
                            wp.in.do_lower_case)
            /\ wp.nbest[1].start_logit = At(wp.in.all_results[1].start_logits, se[1])
            /\ wp.nbest[1].end_logit = At(wp.in.all_results[1].end_logits, se[2])

C16_Witness ==
    /\ pc = "written"
    /\ Len(features) = 1
    /\ wp.in.is_version2
    /\ \E se \in SingledOut : se[1] < se[2]
    /\ Len(wp.nbest[1].text) >= 2

----------------------------------------------------------------------------
(* Properties of the original-text projection.                             *)

\* " ".join(tokenizer.tokenize(orig_text)) of the call
TokText == Join(BasicTokenize(text_in.orig_text, text_in.do_lower_case))

\* the offsets of TokText at which pred_text occurs
Occurrences == {i \in 0..Len(TokText) : OccursAt(TokText, text_in.pred_text, i)}

\* the offset of the first occurrence and of its last character
MatchStart == CHOOSE i \in Occurrences : \A j \in Occurrences : i <= j

MatchEnd == MatchStart + Len(text_in.pred_text) - 1

\* the number of non-space characters of text before offset p
NsRank(text, p) == Cardinality({i \in 1..Len(text) : i <= p /\ text[i] # " "})

NsCount(text) == NsRank(text, Len(text))

\* the offset of the non-space character of text that has rank r
NsOffset(text, r) ==
    CHOOSE p \in 0..(Len(text) - 1) : text[p + 1] # " " /\ NsRank(text, p) = r

\* whether offset p of TokText is a non-space character with a partner of
\* the same rank among the non-space characters of orig_text
Mappable(p) ==
    /\ p \in 0..(Len(TokText) - 1)
    /\ TokText[p + 1] # " "
    /\ NsRank(TokText, p) < NsCount(text_in.orig_text)

\* C17: get_final_text returns orig_text unchanged when pred_text does not
\* occur in the tokenized, space-joined orig_text and when the start or the
\* end of the first occurrence has no partner in orig_text.
C17_Fallback ==
    pc = "text_done" =>
        ((Occurrences = {} \/ ~Mappable(MatchStart) \/ ~Mappable(MatchEnd))
            => text_out = text_in.orig_text)

C17_Witness ==
    /\ pc = "text_done"
    /\ Len(text_in.orig_text) >= 3
    /\ Len(text_in.pred_text) >= 2
    /\ Occurrences # {}
    /\ Mappable(MatchStart)
    /\ ~Mappable(MatchEnd)
    /\ text_out = text_in.orig_text

\* orig_text between the non-space characters that have the rank of the
\* first and of the last character of the match, both included
AlignedSlice ==
    SubSeq(text_in.orig_text,
           NsOffset(text_in.orig_text, NsRank(TokText, MatchStart)) + 1,
           NsOffset(text_in.orig_text, NsRank(TokText, MatchEnd)) + 1)

Aligned == Occurrences # {} /\ Mappable(MatchStart) /\ Mappable(MatchEnd)

\* C18: when pred_text is found in the tokenized, space-joined orig_text (and
\* both ends of the match have a partner in orig_text), get_final_text
\* returns orig_text between the partners of the first and the last
\* character of the match, both included.
C18_Claim ==
    (pc = "text_done" /\ Aligned) => text_out = AlignedSlice

\* C18, amended: the same, when the tokenization has kept every non-space
\* character of orig_text; when it has dropped one, orig_text is returned.
C18_Amended ==
    (pc = "text_done" /\ Aligned) =>
        text_out = IF NsCount(text_in.orig_text) = NsCount(TokText)
                   THEN AlignedSlice
                   ELSE text_in.orig_text

\* prediction "a a" in the original "A A'": the result is "A A"
C18_Witness ==
    /\ pc = "text_done"
    /\ text_in.do_lower_case
    /\ text_in.pred_text = <<"a", " ", "a">>
    /\ text_in.orig_text = <<"A", " ", "A", "'">>
    /\ Aligned
    /\ text_out = <<"A", " ", "A">>

----------------------------------------------------------------------------
(* Properties of the reader.                                               *)

ReadFinished == pc \in {"read_done", "ValueError", "KeyError"}

Qa(k) == reader_in.source.qas[k]

\* question k is flagged unanswerable
Flagged(k) == reader_in.source.version = "v2.0" /\ Qa(k).is_impossible

\* question k is not flagged and does not have exactly one gold answer
Malformed(k) == ~Flagged(k) /\ Len(Qa(k).answers) # 1

\* question k has its one gold answer without the key "answer_end"
NoEndKey(k) ==
    ~Flagged(k) /\ Len(Qa(k).answers) = 1 /\ ~Qa(k).answers[1].has_answer_end

QaIndexes == 1..Len(reader_in.source.qas)

\* C19: in training mode a question that is not flagged unanswerable and
\* does not have exactly one gold answer makes the load raise (ValueError
\* when no earlier question has raised) and return no example list; a
\* flagged question raises nothing, whatever its answers, and in the list
\* returned it has start_position = end_position = -1 and the empty answer
\* text.
C19_FormatError ==
    (ReadFinished /\ reader_in.is_training) =>
        /\ (\A k \in QaIndexes : ~Malformed(k) /\ ~NoEndKey(k)) =>
               (pc = "read_done" /\ Len(reader_out.examples) = Len(reader_in.source.qas))
        /\ (\E k \in QaIndexes : Malformed(k)) =>
               (pc # "read_done" /\ reader_out.raised # None)
        /\ (\E k \in QaIndexes :
               Malformed(k) /\ \A j \in 1..(k - 1) : ~Malformed(j) /\ ~NoEndKey(j))
               => (pc = "ValueError" /\ reader_out.raised = "ValueError")
        /\ pc = "read_done" =>
               \A k \in QaIndexes :
                   Flagged(k) =>
                       /\ reader_out.examples[k].is_impossible
                       /\ reader_out.examples[k].start_position = -1
                       /\ reader_out.examples[k].end_position = -1
                       /\ reader_out.examples[k].orig_answer_text = <<>>

\* a well-formed question followed by a malformed one
C19_Witness ==
    /\ pc = "ValueError"
    /\ reader_in.is_training
    /\ Len(reader_in.source.qas) = 2
    /\ ~Flagged(1) /\ ~Malformed(1) /\ ~NoEndKey(1)
    /\ Malformed(2)
    /\ Len(Qa(2).answers) = 2

\* C20: in training mode, for an answerable question, start_position is the
\* word of the gold character offset, end_position the word of the last
\* character of the answer text, and 0 <= start_position <= end_position <
\* len(doc_tokens).
C20_Claim ==
    (ReadFinished /\ reader_in.is_training /\ \A k \in QaIndexes : ~Malformed(k)) =>
        /\ pc = "read_done"
        /\ \A k \in QaIndexes :
              ~Flagged(k) =>
                  LET answer == Qa(k).answers[1]
                      ex == reader_out.examples[k]
                      last == answer.answer_start + Len(answer.text) - 1
                  IN  /\ ex.start_position =
                            At(reader_out.char_to_word_offset, answer.answer_start)
                      /\ ex.end_position = At(reader_out.char_to_word_offset, last)
                      /\ 0 <= ex.start_position
                      /\ ex.start_position <= ex.end_position
                      /\ ex.end_position < Len(reader_out.doc_tokens)

----------------------------------------------------------------------------
(* Properties of the max-context resolver over the partitioner's spans.    *)

\* the windows (0-based) whose slice contains document position p
Containing(p) ==
    {i \in 0..(Len(doc_spans) - 1) : InSlice(p, At(doc_spans, i))}

\* the containing windows whose score min(left, right) + 0.01 * length is
\* the largest
Maximisers(p) ==
    {i \in Containing(p) :
        \A j \in Containing(p) :
            SpanScore(At(doc_spans, j), p) <= SpanScore(At(doc_spans, i), p)}

\* the windows whose Feature flags position p as max-context
OwnersOf(p) ==
    {i \in Containing(p) :
        /\ i < Len(features)
        /\ At(features, i).token_is_max_context[
               DocOffset(Len(query_tokens)) + p - At(doc_spans, i).start]}

\* C21 as stated: for every document position exactly one containing window
\* attains the largest score (no two containing windows tie), and that
\* window is the owner.
C21_Claim ==
    pc = "converted" =>
        \A p \in 0..(Len(all_doc_tokens) - 1) :
            /\ Cardinality(Maximisers(p)) = 1
            /\ OwnersOf(p) = Maximisers(p)

\* C21 amended: two containing windows may tie on the score; the owner of a
\* position is the one window of lowest index among those attaining the
\* largest score.
C21_Amended ==
    pc = "converted" =>
        \A p \in 0..(Len(all_doc_tokens) - 1) :
            OwnersOf(p) = {i \in Maximisers(p) : \A j \in Maximisers(p) : i <= j}

C21_Witness ==
    /\ pc = "converted"
    /\ args.doc_stride >= 1
    /\ \E p \in 0..(Len(all_doc_tokens) - 1) :
          /\ Cardinality(Maximisers(p)) = 2
          /\ Cardinality(OwnersOf(p)) = 1

----------------------------------------------------------------------------
(* Properties of the span improver.                                        *)

\* the sub-ranges (new_start, new_end) of [input_start, input_end] whose
\* tokens are the tokenized answer text
AnswerMatches ==
    {m \in (span_in.input_start..span_in.input_end)
             \X (span_in.input_start..span_in.input_end) :
        /\ m[1] <= m[2]
        /\ Slice(span_in.doc_tokens, m[1], m[2]) = tokenize(span_in.orig_answer_text)}

\* m comes before o when new_start ascends and, for one new_start, new_end
\* descends
ScannedBefore(m, o) == m[1] < o[1] \/ (m[1] = o[1] /\ m[2] >= o[2])

\* C22: the result is the matching sub-range met first when new_start ascends
\* and new_end descends from input_end; without a match (input_start >
\* input_end included) it is (input_start, input_end); it always lies inside
\* [input_start, input_end].
C22_FirstMatch ==
    pc = "span_done" =>
        /\ AnswerMatches # {} =>
              /\ span_out \in AnswerMatches
              /\ \A o \in AnswerMatches : ScannedBefore(span_out, o)
        /\ AnswerMatches = {} => span_out = <<span_in.input_start, span_in.input_end>>
        /\ span_in.input_start <= span_out[1]
        /\ span_out[2] <= span_in.input_end

C22_Witness ==
    /\ pc = "span_done"
    /\ Cardinality(AnswerMatches) >= 2
    /\ span_out # <<span_in.input_start, span_in.input_end>>
    /\ \E o \in AnswerMatches : o[1] > span_out[1]

\* C23 as stated: when a sub-range matches, the result is the one and only
\* match, and no match has fewer tokens than it.
C23_Claim ==
    (pc = "span_done" /\ AnswerMatches # {}) =>
        /\ AnswerMatches = {span_out}
        /\ \A o \in AnswerMatches : o[2] - o[1] >= span_out[2] - span_out[1]

\* C23 amended: when a sub-range matches, the result is a match, every match
\* has as many tokens as it, and it is the leftmost of the matches; the
\* answer text may match at several places of the interval.
C23_Amended ==
    (pc = "span_done" /\ AnswerMatches # {}) =>
        /\ span_out \in AnswerMatches
        /\ \A o \in AnswerMatches :
              /\ o[2] - o[1] = span_out[2] - span_out[1]
              /\ o[1] >= span_out[1]

C23_Witness ==
    /\ pc = "span_done"
    /\ Cardinality(AnswerMatches) = 2
    /\ Len(span_in.orig_answer_text) = 2
    /\ span_out[2] - span_out[1] = 1
    /\ span_out[2] < span_in.input_end

----------------------------------------------------------------------------
(* Properties of the candidate predictions.                                *)

\* the candidates of the example other than the injected no-answer one: the
\* program tells them apart by start_index > 0 (line 709)
NonNullCandidates ==
    {i \in 1..Len(wp.prelim_predictions) : wp.prelim_predictions[i].start_index > 0}

LeastMarkerSum ==
    LET sums == {MarkerSum(k) : k \in 1..Len(features)}
    IN  CHOOSE m \in sums : \A o \in sums : m <= o

\* C25: with null answers enabled and at least one Feature, for any scores,
\* score_null is the minimum over the Features of start_logits[0] +
\* end_logits[0], and the injected no-answer candidate carries the index and
\* the two raw [CLS] scores of a Feature that achieves the minimum.
C25_Claim ==
    (Aggregated /\ wp.in.is_version2 /\ Len(features) >= 1) =>
        /\ wp.null.score_null = LeastMarkerSum
        /\ \E i \in 1..Len(wp.prelim_predictions) :
              LET c == wp.prelim_predictions[i]
              IN  /\ c.start_index = 0
                  /\ c.end_index = 0
                  /\ c.feature_index < Len(features)
                  /\ MarkerSum(c.feature_index + 1) = LeastMarkerSum
                  /\ c.start_logit = At(wp.in.all_results[c.feature_index + 1].start_logits, 0)
                  /\ c.end_logit = At(wp.in.all_results[c.feature_index + 1].end_logits, 0)

----------------------------------------------------------------------------
(* Properties of the window assembly.                                      *)

\* C26: the tokens of every Feature are [CLS], the first min(len,
\* max_query_length) question subwords, [SEP], the document slice of its span
\* in order, [SEP]; segment_ids is 0 before the slice, 1 on the slice and its
\* closing separator, 0 on padding; input_mask is 1 on the real tokens only;
\* token_to_orig_map and token_is_max_context are keyed by exactly the slice
\* positions, and token_to_orig_map[len(q)+2+i] = tok_to_orig_index[start+i].
C26_Assembly ==
    \A k \in 1..Len(features) :
        LET f == features[k]
            sp == SpanOf(f)
            q == tokenize(example.question_text)
            nq == Min(Len(q), args.max_query_length)
            real == nq + sp.length + 3
        IN  /\ Len(f.tokens) = real
            /\ f.tokens[1] = "[CLS]"
            /\ \A i \in 1..nq : f.tokens[1 + i] = q[i]
            /\ f.tokens[nq + 2] = "[SEP]"
            /\ \A i \in 0..(sp.length - 1) :
                  At(f.tokens, nq + 2 + i) = At(all_doc_tokens, sp.start + i)
            /\ f.tokens[real] = "[SEP]"
            /\ Len(f.segment_ids) = args.max_seq_length
            /\ Len(f.input_mask) = args.max_seq_length
            /\ \A i \in 1..args.max_seq_length :
                  /\ f.segment_ids[i] = (IF i > nq + 2 /\ i <= real THEN 1 ELSE 0)
                  /\ f.input_mask[i] = (IF i <= real THEN 1 ELSE 0)
            /\ DOMAIN f.token_to_orig_map = (nq + 2)..(nq + 1 + sp.length)
            /\ DOMAIN f.token_is_max_context = (nq + 2)..(nq + 1 + sp.length)
            /\ \A i \in 0..(sp.length - 1) :
                  f.token_to_orig_map[nq + 2 + i] = At(tok_to_orig_index, sp.start + i)

\* a truncated question, two windows, the last of them padded
C26_Witness ==
    /\ pc = "converted"
    /\ Len(example.question_text) > args.max_query_length
    /\ Len(features) >= 2
    /\ Len(features[Len(features)].tokens) < args.max_seq_length
    /\ Len(features[1].tokens) = args.max_seq_length

----------------------------------------------------------------------------
(* Properties of the feature cache.                                        *)

\* the cache file of this run is missing, cannot be opened or is no pickle
CacheReadFails == ~CacheReadable(files, CachedTrainFeaturesFile(run.args))

\* C27: when reading the cache file fails (missing, unreadable or not
\* deserialisable) the failure is surfaced, the run does not go on to
\* training; and the features a run trains on are those of its own train
\* file, model, max_seq_length, doc_stride and max_query_length, a cache file
\* being reused for that key only.
C27_Claim ==
    /\ [][(pc = "cache" /\ CacheReadFails) => pc' # "training"]_vars
    /\ [](pc = "training" => train_features = ConvertedFeatures(run.args))

----------------------------------------------------------------------------
(* Termination of the window loop.                                         *)

InLoop == pc = "spans"

LoopLeft == pc = "windows" \/ pc = "converted"

\* the loop is entered with a document to slice
Slicing == pc # "convert" /\ Len(all_doc_tokens) > 0

\* start_offset grows on every iteration that does not leave the loop
OffsetGrows ==
    [][(InLoop /\ pc' = "spans" /\ max_tokens_for_doc >= 1 /\ args.doc_stride >= 1)
          => start_offset' > start_offset]_vars

\* C28 as stated: with budget >= 1 and doc_stride >= 1 start_offset grows on
\* every iteration that does not break and the loop is left; with a
\* non-empty document and doc_stride <= 0 or budget <= 0 it is never left.
C28_Claim ==
    /\ OffsetGrows
    /\ (InLoop /\ max_tokens_for_doc >= 1 /\ args.doc_stride >= 1) ~> LoopLeft
    /\ []((Slicing /\ (args.doc_stride <= 0 \/ max_tokens_for_doc <= 0)) => ~LoopLeft)

\* C28 amended: with budget >= 1 the loop is left when doc_stride >= 1
\* (start_offset growing on every iteration that does not break) and when
\* the whole document fits the first window; it is never left when a
\* non-empty document meets budget <= 0, or doc_stride <= 0 with more
\* subwords than the budget.
C28_Amended ==
    /\ OffsetGrows
    /\ (InLoop /\ max_tokens_for_doc >= 1
          /\ (args.doc_stride >= 1 \/ Len(all_doc_tokens) <= max_tokens_for_doc))
            ~> LoopLeft
    /\ []((Slicing /\ (max_tokens_for_doc <= 0
                        \/ (args.doc_stride <= 0
                              /\ Len(all_doc_tokens) > max_tokens_for_doc)))
            => ~LoopLeft)

\* doc_stride <= 0 and a document that fits its first window: the loop is left
C28_Witness ==
    /\ pc = "converted"
    /\ args.doc_stride <= 0
    /\ Len(all_doc_tokens) > 0
    /\ Len(doc_spans) = 1
    /\ Len(features) = 1

----------------------------------------------------------------------------
(* Properties of the n-best list.                                          *)

NbestBuilt == pc \in {"written", "AttributeError"}

EntrySum(entry) == entry.start_logit + entry.end_logit

\* C29: the n-best list is in non-increasing order of start_logit +
\* end_logit, also when the no-answer entry is appended after the ranked loop
\* because n_best_size cut it off; so its first entry has the largest sum, and
\* its first entry with a non-empty text has the largest sum of the non-null
\* candidates.
C29_Ranked ==
    NbestBuilt =>
        /\ \A i \in 1..(Len(wp.nbest) - 1) :
              EntrySum(wp.nbest[i]) >= EntrySum(wp.nbest[i + 1])
        /\ \A i \in 1..Len(wp.nbest) : EntrySum(wp.nbest[1]) >= EntrySum(wp.nbest[i])
        /\ (NonNullEntries # {} /\ NonNullCandidates # {}) =>
              LET b == CHOOSE i \in NonNullEntries : \A j \in NonNullEntries : i <= j
              IN  /\ \A i \in NonNullCandidates :
                        EntrySum(wp.nbest[b]) >= EntrySum(wp.prelim_predictions[i])
                  /\ \E i \in NonNullCandidates :
                        EntrySum(wp.nbest[b]) = EntrySum(wp.prelim_predictions[i])

\* the no-answer entry, cut off by n_best_size, is appended below entries
\* that score more
C29_Witness ==
    /\ pc = "written"
    /\ wp.in.is_version2
    /\ Len(wp.nbest) = wp.in.n_best_size + 1
    /\ wp.in.n_best_size >= 2
    /\ wp.nbest[Len(wp.nbest)].text = <<>>
    /\ EntrySum(wp.nbest[Len(wp.nbest)]) < EntrySum(wp.nbest[1])

----------------------------------------------------------------------------
(* One owner per document position, over the Features of an example.       *)

\* the document position a candidate starts at
StartPosition(pred) ==
    pred.start_index - DocOffset(Len(query_tokens))
        + SpanOf(At(features, pred.feature_index)).start

\* C30: once the Features of an example are built, every document subword
\* position is flagged token_is_max_context in exactly one of the Features
\* whose slice contains it (at window position len(q) + 2 + p - span.start)
\* and in no other; so the candidates that start at one document position
\* all come from one Feature, the owner of the position.
C30_OneFeature ==
    /\ (pc = "converted" \/ Aggregated) =>
          \A p \in 0..(Len(all_doc_tokens) - 1) :
              /\ Containing(p) # {}
              /\ Cardinality(OwnersOf(p)) = 1
    /\ Aggregated =>
          \A i \in NonNullCandidates :
              OwnersOf(StartPosition(wp.prelim_predictions[i]))
                  = {wp.prelim_predictions[i].feature_index}

\* a position held by two windows, scored best as a start in both, gives
\* candidates from its owner only
C30_Witness ==
    /\ pc = "written"
    /\ Len(features) = 2
    /\ \E p \in 0..(Len(all_doc_tokens) - 1) :
          /\ Cardinality(Containing(p)) = 2
          /\ \A k \in 1..2 :
                StrictMaxAt(wp.in.all_results[k].start_logits,
                            DocOffset(Len(query_tokens)) + p - doc_spans[k].start)
          /\ \E i \in NonNullCandidates : StartPosition(wp.prelim_predictions[i]) = p

====
